---- MODULE Spec2Model ----
(***************************************************************************)
(* Model of poke-buddy.py: the PokemonCardScraper class and main().        *)
(*                                                                         *)
(* Python strings are modelled as sequences of one-character strings.      *)
(* Three non-ASCII glyphs of the source are written with ASCII stand-ins:  *)
(*   MULT   "*"  for the multiplication glyph   (U+00D7)                   *)
(*   ARROW  ">"  for the arrow separator        (U+2192)                   *)
(*   RAQUO  "|"  for the type-line separator    (U+203A)                   *)
(* and the word tested by `"Pok\'emon" in type_info` is spelled Pokemon.   *)
(* Python dicts are functions with string domains; {} is the empty         *)
(* function <<>>.  What find() returns is an optional value: NoElem for    *)
(* None, Elem(x) for an element (or attribute) with content x.             *)
(***************************************************************************)
EXTENDS Integers, Sequences, FiniteSets, TLC

VARIABLES
    pc,           \* position of main / scrape_cards, or of a single call
    test_mode,    \* self.test_mode
    soup,         \* local soup of scrape_cards: "unset", "None" or "doc"
    total_pages,  \* local total_pages of scrape_cards
    page,         \* loop variable of scrape_cards (0 before the loop)
    cards_data,   \* self.cards_data
    seen_texts,   \* self.seen_texts
    card_data,    \* local card_data of scrape_cards: last parse_card_data result
    last_log,     \* most recent message logged by parse_card_data
    nParsed,      \* number of parse_card_data calls so far
    fetched,      \* pages requested through get_page_content, in order
    out_file,     \* pokemon_cards.json as left by this run
    save_result,  \* outcome of save_to_json: "not_called", "ok", "open_failed", "dump_failed"
    arg,          \* argument of a single call (specifications of one function)
    ret           \* its return value

vars == <<pc, test_mode, soup, total_pages, page, cards_data, seen_texts,
          card_data, last_log, nParsed, fetched, out_file, save_result,
          arg, ret>>

(***************************************************************************)
(* Bounds of the model.                                                    *)
(***************************************************************************)
MaxCards == 3        \* parse_card_data calls in one run
MaxPages == 3        \* largest page count a last-page marker of a run announces
MaxAttackBody == 5   \* characters after the attack-text prefix
MaxEnergyLen == 6    \* characters of a parse_energy_symbols input
MaxMarkerLen == 4    \* characters of the last-page-link text

(***************************************************************************)
(* Glyphs and Python's str primitives.                                     *)
(***************************************************************************)
MULT == "*"
ARROW == ">"
RAQUO == "|"
NL == "\n"

EmptyDict == <<>>
NoElem == <<>>

Elem(x) == <<x>>

IsSpace(c) == c \in {" ", NL}

IsDigit(c) == c \in {"0", "1", "2", "3", "4", "5", "6", "7", "8", "9"}

DigitVal(c) ==
    CASE c = "0" -> 0 [] c = "1" -> 1 [] c = "2" -> 2 [] c = "3" -> 3
      [] c = "4" -> 4 [] c = "5" -> 5 [] c = "6" -> 6 [] c = "7" -> 7
      [] c = "8" -> 8 [] c = "9" -> 9

SetMin(S) == CHOOSE x \in S : \A y \in S : x <= y

SetMax(S) == CHOOSE x \in S : \A y \in S : x >= y

\* s.strip()
strip(s) ==
    LET keep == {i \in 1..Len(s) : ~IsSpace(s[i])}
    IN  IF keep = {} THEN <<>> ELSE SubSeq(s, SetMin(keep), SetMax(keep))

\* does sep occur in s starting at index i
MatchAt(s, sep, i) ==
    /\ i >= 1
    /\ i + Len(sep) - 1 <= Len(s)
    /\ SubSeq(s, i, i + Len(sep) - 1) = sep

Occurrences(s, sep) == {i \in 1..Len(s) : MatchAt(s, sep, i)}

\* sub in s
Contains(sub, s) == sub = <<>> \/ Occurrences(s, sub) # {}

\* s.split(sep, 1)
split1(s, sep) ==
    LET occ == Occurrences(s, sep)
    IN  IF occ = {} THEN <<s>>
        ELSE LET i == SetMin(occ)
             IN  <<SubSeq(s, 1, i - 1), SubSeq(s, i + Len(sep), Len(s))>>

\* s.rsplit(sep, 1)
rsplit1(s, sep) ==
    LET occ == Occurrences(s, sep)
    IN  IF occ = {} THEN <<s>>
        ELSE LET i == SetMax(occ)
             IN  <<SubSeq(s, 1, i - 1), SubSeq(s, i + Len(sep), Len(s))>>

RECURSIVE split(_, _)
\* s.split(sep)
split(s, sep) ==
    LET p == split1(s, sep)
    IN  IF Len(p) = 1 THEN p ELSE <<p[1]>> \o split(p[2], sep)

RECURSIVE join(_, _)
\* sep.join(parts)
join(sep, parts) ==
    IF parts = <<>> THEN <<>>
    ELSE IF Len(parts) = 1 THEN parts[1]
    ELSE parts[1] \o sep \o join(sep, Tail(parts))

\* s.replace(old, "")
remove(s, old) == join(<<>>, split(s, old))

\* ''.join(filter(str.isdigit, s))
digits(s) == SelectSeq(s, IsDigit)

\* the digit test of lines 116 and 125 left out
anyDigit_always(s) == TRUE

\* any(c.isdigit() for c in s)
anyDigit(s) == \E i \in 1..Len(s) : IsDigit(s[i])

RECURSIVE DecimalValue(_)
DecimalValue(d) ==
    IF d = <<>> THEN 0
    ELSE 10 * DecimalValue(SubSeq(d, 1, Len(d) - 1)) + DigitVal(d[Len(d)])

\* int(s): surrounding whitespace is ignored, one optional sign, then one or
\* more digits; anything else raises ValueError (ok = FALSE).
int(s) ==
    LET t == strip(s)
        signed == t # <<>> /\ t[1] \in {"+", "-"}
        d == IF signed THEN Tail(t) ELSE t
        ok == d # <<>> /\ \A i \in 1..Len(d) : IsDigit(d[i])
    IN  IF ~ok THEN [ok |-> FALSE, val |-> 0]
        ELSE [ok |-> TRUE,
              val |-> IF signed /\ t[1] = "-" THEN 0 - DecimalValue(d)
                      ELSE DecimalValue(d)]

\* every string over alphabet A of length at most n
Strings(A, n) == UNION {[1..k -> A] : k \in 0..n}

(***************************************************************************)
(* get_total_pages.  A first-page document is represented by what          *)
(* soup.find('span', class_='last-page-link') returns: NoElem or Elem of   *)
(* the element's text.                                                     *)
(***************************************************************************)
get_total_pages(marker) ==
    IF marker = NoElem THEN 1
    ELSE LET parts == split(strip(marker[1]), <<"/">>)
             n == int(parts[Len(parts)])
         IN  IF n.ok THEN n.val ELSE 1

(***************************************************************************)
(* parse_energy_symbols.                                                   *)
(***************************************************************************)
energy_map ==
    [c \in {"C", "G", "R", "W", "L", "P", "F", "D", "M", "Y", "N"} |->
        CASE c = "C" -> "Colorless" [] c = "G" -> "Grass"
          [] c = "R" -> "Fire"      [] c = "W" -> "Water"
          [] c = "L" -> "Lightning" [] c = "P" -> "Psychic"
          [] c = "F" -> "Fighting"  [] c = "D" -> "Darkness"
          [] c = "M" -> "Metal"     [] c = "Y" -> "Fairy"
          [] c = "N" -> "Dragon"]

RECURSIVE EnergyOfParts(_)
\* the loop body of parse_energy_symbols over parts[1:]
EnergyOfParts(parts) ==
    IF parts = <<>> THEN <<>>
    ELSE LET part == Head(parts)
             here == IF Contains(<<"}">>, part) /\ part[1] \in DOMAIN energy_map
                     THEN <<energy_map[part[1]]>>
                     ELSE <<>>
         IN  here \o EnergyOfParts(Tail(parts))

parse_energy_symbols(text) == EnergyOfParts(Tail(split(text, <<"{">>)))

(***************************************************************************)
(* parse_attack.  The body of the try block yields either a value or a     *)
(* raised exception; the except clause turns every exception into {}.      *)
(***************************************************************************)
Raised == [raised |-> TRUE, value |-> EmptyDict]

Returned(v) == [raised |-> FALSE, value |-> v]

\* lines 104-131: the three forms of the first line
AttackFields(first_line, info_lines) ==
    LET rest == join(<<NL>>, Tail(info_lines))
    IN  IF Contains(<<MULT>>, first_line)
        THEN LET name_parts == split1(first_line, <<MULT>>)
                 np == rsplit1(name_parts[1], <<" ">>)
             IN  IF Len(np) < 2 THEN Raised   \* IndexError at [1]
                 ELSE Returned([name |-> strip(np[1]),
                                damage |-> strip(np[2]),
                                description |->
                                    IF Len(info_lines) > 1 THEN strip(rest)
                                    ELSE <<>>])
        ELSE IF Contains(<<":">>, first_line)
        THEN LET sp == split1(first_line, <<":">>)
                 name_and_damage == sp[1]
                 desc == sp[2]
                 name_parts == rsplit1(name_and_damage, <<" ">>)
                 description == strip(desc \o <<NL>> \o rest)
             IN  IF Len(name_parts) = 2 /\ anyDigit(name_parts[2])
                 THEN Returned([name |-> strip(name_parts[1]),
                                damage |-> strip(name_parts[2]),
                                description |-> description])
                 ELSE Returned([name |-> strip(name_and_damage),
                                damage |-> <<"0">>,
                                description |-> description])
        ELSE LET name_parts == rsplit1(first_line, <<" ">>)
                 description == IF Len(info_lines) > 1 THEN strip(rest)
                                ELSE <<>>
             IN  IF Len(name_parts) = 2 /\ anyDigit(name_parts[2])
                 THEN Returned([name |-> strip(name_parts[1]),
                                damage |-> strip(name_parts[2]),
                                description |-> description])
                 ELSE Returned([name |-> strip(first_line),
                                damage |-> <<"0">>,
                                description |-> description])

\* lines 87-141: the try block
parse_attack_try(attack_text) ==
    LET parts == split(attack_text, <<ARROW>>)
    IN  IF Len(parts) # 2 THEN Returned(EmptyDict)
        ELSE LET energy_cost_text == strip(parts[1])
                 attack_info == strip(parts[2])
                 info_lines == split(attack_info, <<NL>>)
                 first_line == strip(info_lines[1])
                 f == AttackFields(first_line, info_lines)
             IN  IF f.raised THEN Raised
                 ELSE LET d == digits(f.value.damage)
                      IN  Returned(
                            [name |-> f.value.name,
                             damage |-> IF d = <<>> THEN <<"0">> ELSE d,
                             energy_cost |->
                                 parse_energy_symbols(energy_cost_text),
                             description |-> f.value.description])

parse_attack(attack_text) ==
    LET r == parse_attack_try(attack_text)
    IN  IF r.raised THEN EmptyDict ELSE r.value

(***************************************************************************)
(* parse_card_data.  A card subtree is a record of what card.find returns  *)
(* for each element the function looks up:                                 *)
(*   text_div  div.text: Elem of the texts of its <p> elements             *)
(*   name      span.name: Elem of its text                                 *)
(*   type_div  div.type-evolves-is: Elem of its text                       *)
(*   hp        span.hp: Elem of its text                                   *)
(*   color     span.color: Elem of its text                                *)
(*   stats     div.weak-resist-retreat: Elem of its span.retreat, which is *)
(*             Elem of its abbr, which is Elem of its title attribute,     *)
(*             which is Elem of the attribute's text                       *)
(***************************************************************************)
NoStatsDiv == NoElem
NoRetreatSpan == Elem(NoElem)
NoAbbr == Elem(Elem(NoElem))
NoTitle == Elem(Elem(Elem(NoElem)))

Title(text) == Elem(Elem(Elem(Elem(text))))

TitleText(stats) == stats[1][1][1][1]

Pokemon == <<"P", "o", "k", "e", "m", "o", "n">>
UnknownCard == <<"u", "n", "k", "n", "o", "w", "n", " ", "c", "a", "r", "d">>
NoLog == <<"none">>

StripAll(ps) == [i \in 1..Len(ps) |-> strip(ps[i])]

\* lines 150-157
TextContent(card) ==
    IF card.text_div = NoElem THEN <<>>
    ELSE join(<<NL, NL>>, StripAll(card.text_div[1]))

\* lines 163-164
TypeText(card) ==
    IF card.type_div = NoElem THEN <<>> ELSE strip(card.type_div[1])

\* the duplicate key also taking the card's name
CardIdentifier_withName(card) ==
    (IF card.name = NoElem THEN <<>> ELSE strip(card.name[1]))
        \o TypeText(card) \o <<NL>> \o TextContent(card)

\* line 167
CardIdentifier(card) == TypeText(card) \o <<NL>> \o TextContent(card)

\* line 184
TypeInfo(card) == strip(split(TypeText(card), <<RAQUO>>)[1])

\* the Pokemon test made on the whole type line instead of the category
IsPokemonCard_wholeLine(card) ==
    card.type_div # NoElem /\ Contains(Pokemon, TypeText(card))

\* lines 180-190
IsPokemonCard(card) ==
    card.type_div # NoElem /\ Contains(Pokemon, TypeInfo(card))

\* lines 208-222: the inner try block never lets an exception out
RetreatCost(card) ==
    IF card.stats \in {NoStatsDiv, NoRetreatSpan, NoAbbr} THEN 0
    ELSE IF card.stats = NoTitle THEN 0      \* KeyError, caught at line 220
    ELSE Len(split(TitleText(card.stats), <<"{", "C", "}">>)) - 1

\* lines 175-222, given that nothing raised
BuildCardData(card) ==
    LET base == ("name" :> strip(card.name[1])) @@ ("text" :> TextContent(card))
        typed == IF card.type_div # NoElem
                 THEN ("type_line" :> TypeText(card))
                      @@ ("category" :> TypeInfo(card))
                 ELSE EmptyDict
        hp == IF IsPokemonCard(card) /\ card.hp # NoElem
              THEN "hp" :> int(strip(remove(strip(card.hp[1]), <<"H", "P">>))).val
              ELSE EmptyDict
        color == IF card.color # NoElem
                 THEN "color" :> strip(card.color[1])
                 ELSE EmptyDict
        retreat == IF IsPokemonCard(card)
                   THEN "retreat_cost" :> RetreatCost(card)
                   ELSE EmptyDict
    IN  base @@ typed @@ hp @@ color @@ retreat

\* line 196 raises ValueError
HpRaises(card) ==
    /\ IsPokemonCard(card)
    /\ card.hp # NoElem
    /\ ~int(strip(remove(strip(card.hp[1]), <<"H", "P">>))).ok

RetreatLog(card, log) ==
    IF IsPokemonCard(card) /\ card.stats = NoTitle
    THEN <<"retreat_error", strip(card.name[1])>>
    ELSE log

\* the identifier registered right after it is computed, before line 196
parse_card_try_earlyAdd(card, seen, log) ==
    IF card.name = NoElem
    THEN [raised |-> TRUE, value |-> EmptyDict, seen |-> seen,
          log |-> <<"error", UnknownCard>>]
    ELSE IF CardIdentifier(card) \in seen
    THEN [raised |-> FALSE, value |-> EmptyDict, seen |-> seen,
          log |-> <<"skip", strip(card.name[1])>>]
    ELSE IF HpRaises(card)
    THEN [raised |-> TRUE, value |-> EmptyDict,
          seen |-> seen \cup {CardIdentifier(card)},
          log |-> <<"error", strip(card.name[1])>>]
    ELSE [raised |-> FALSE, value |-> BuildCardData(card),
          seen |-> seen \cup {CardIdentifier(card)},
          log |-> RetreatLog(card, log)]

\* lines 149-226: the try block.  seen is self.seen_texts before the call.
parse_card_try(card, seen, log) ==
    IF card.name = NoElem
    THEN [raised |-> TRUE, value |-> EmptyDict, seen |-> seen,
          log |-> <<"error", UnknownCard>>]           \* line 160
    ELSE IF CardIdentifier(card) \in seen
    THEN [raised |-> FALSE, value |-> EmptyDict, seen |-> seen,
          log |-> <<"skip", strip(card.name[1])>>]       \* lines 170-172
    ELSE IF HpRaises(card)
    THEN [raised |-> TRUE, value |-> EmptyDict, seen |-> seen,
          log |-> <<"error", strip(card.name[1])>>]      \* line 196
    ELSE [raised |-> FALSE, value |-> BuildCardData(card),
          seen |-> seen \cup {CardIdentifier(card)},  \* line 225
          log |-> RetreatLog(card, log)]

\* parse_card_data without its except clause
parse_card_data_noExcept(card, seen, log) == parse_card_try(card, seen, log)

\* lines 146-230: the except clause returns {} and logs
parse_card_data(card, seen, log) ==
    LET r == parse_card_try(card, seen, log)
    IN  IF r.raised
        THEN [raised |-> FALSE, value |-> EmptyDict, seen |-> r.seen,
              log |-> r.log]
        ELSE r

(***************************************************************************)
(* Inputs.                                                                 *)
(***************************************************************************)
NameA == <<"A">>
NameB == <<" ", "B">>
TypePokemon == <<" ">> \o Pokemon \o <<" ", RAQUO, " ", "B", NL>>
TypeTrainer == <<"T", " ", RAQUO, " ">> \o Pokemon
TypeBlank == <<" ">>
TextOne == << <<"p", " ">> >>
TextTwo == << <<"p">>, <<" ", "q">> >>
HpSixty == <<"6", "0", " ", "H", "P">>
HpBare == <<"H", "P">>
ColorFire == <<"R">>
TitleTwo == <<"{", "C", "}", "{", "C", "}">>
TitleMixed == <<"{", "G", "}", "{", "C", "}">>

\* card subtrees given to a single parse_card_data call
Cards ==
    [text_div : {NoElem, Elem(<<>>), Elem(TextOne), Elem(TextTwo)},
     name     : {NoElem, Elem(NameA), Elem(NameB)},
     type_div : {NoElem, Elem(TypeBlank), Elem(TypePokemon), Elem(TypeTrainer)},
     hp       : {NoElem, Elem(HpSixty), Elem(HpBare)},
     color    : {NoElem, Elem(ColorFire)},
     stats    : {NoStatsDiv, NoRetreatSpan, NoAbbr, NoTitle, Title(TitleTwo),
                 Title(TitleMixed)}]

\* card subtrees found on the pages of a run
RunCards ==
    [text_div : {Elem(TextOne)},
     name     : {NoElem, Elem(NameA), Elem(NameB)},
     type_div : {NoElem, Elem(TypePokemon), Elem(TypeTrainer)},
     hp       : {Elem(HpSixty), Elem(HpBare)},
     color    : {NoElem},
     stats    : {NoTitle}]

DigitChars == <<"0", "1", "2", "3", "4", "5", "6", "7", "8", "9">>

\* last-page markers of a run: absent, unparsable, or "/ k"
RunMarkers ==
    {NoElem, Elem(<<"/", " ", "a">>)}
        \cup {Elem(<<"/", " ", DigitChars[k + 1]>>) : k \in 0..MaxPages}

AttackPrefixes ==
    {<<>>, <<ARROW>>, <<"{", "C", "}", " ", ARROW, " ">>, <<"a", ARROW, ARROW>>}

AttackAlphabet == {"a", "2", " ", MULT, ":", NL}

AttackTexts ==
    {p \o b : p \in AttackPrefixes, b \in Strings(AttackAlphabet, MaxAttackBody)}

EnergyTexts == Strings({"{", "}", "C", "G", "X"}, MaxEnergyLen)

MarkerTexts ==
    {NoElem}
        \cup {Elem(t) : t \in Strings({"/", " ", "0", "2", "-", "a"}, MaxMarkerLen)}

(***************************************************************************)
(* main: scrape_cards followed by save_to_json.                            *)
(***************************************************************************)
NoFile == [state |-> "absent", content |-> <<>>]

Idle ==
    /\ soup = "unset"
    /\ total_pages = 0
    /\ page = 0
    /\ cards_data = <<>>
    /\ card_data = EmptyDict
    /\ last_log = NoLog
    /\ nParsed = 0
    /\ fetched = <<>>
    /\ out_file = NoFile
    /\ save_result = "not_called"

Init ==
    /\ pc = "start"
    /\ test_mode \in BOOLEAN
    /\ seen_texts = {}
    /\ Idle
    /\ arg = <<>>
    /\ ret = <<>>

\* the first page failure ending the run before save_to_json
FirstPageFails_abort ==
    /\ pc = "start"
    /\ fetched' = Append(fetched, [page |-> 1, ok |-> FALSE])
    /\ soup' = "None"
    /\ pc' = "done"
    /\ UNCHANGED <<test_mode, total_pages, page, cards_data, seen_texts,
                   card_data, last_log, nParsed, out_file, save_result,
                   arg, ret>>

\* lines 239-241: get_page_content returns None for the first page
FirstPageFails ==
    /\ pc = "start"
    /\ fetched' = Append(fetched, [page |-> 1, ok |-> FALSE])
    /\ soup' = "None"
    /\ pc' = "save"
    /\ UNCHANGED <<test_mode, total_pages, page, cards_data, seen_texts,
                   card_data, last_log, nParsed, out_file, save_result,
                   arg, ret>>

\* lines 239-246: the first page loads; the loop starts with page 1
FirstPageLoads(marker) ==
    /\ pc = "start"
    /\ fetched' = Append(fetched, [page |-> 1, ok |-> TRUE])
    /\ soup' = "doc"
    /\ total_pages' = IF test_mode THEN 1 ELSE get_total_pages(marker)
    /\ IF total_pages' >= 1
       THEN page' = 1 /\ pc' = "cards"
       ELSE page' = page /\ pc' = "save"
    /\ UNCHANGED <<test_mode, cards_data, seen_texts, card_data, last_log,
                   nParsed, out_file, save_result, arg, ret>>

\* lines 261-264: one iteration of the loop over the cards of the page
ParseCard(card) ==
    /\ pc = "cards"
    /\ nParsed < MaxCards
    /\ LET r == parse_card_data(card, seen_texts, last_log)
       IN  IF r.raised
           THEN /\ pc' = "raised"
                /\ UNCHANGED <<cards_data, seen_texts, card_data, last_log>>
           ELSE /\ pc' = pc
                /\ seen_texts' = r.seen
                /\ last_log' = r.log
                /\ card_data' = r.value
                /\ cards_data' = IF r.value # EmptyDict
                                 THEN Append(cards_data, r.value)
                                 ELSE cards_data
    /\ nParsed' = nParsed + 1
    /\ UNCHANGED <<test_mode, soup, total_pages, page, fetched, out_file,
                   save_result, arg, ret>>

\* line 246: the for loop moves to the next page or ends
LoopAdvance ==
    IF page < total_pages
    THEN page' = page + 1 /\ pc' = "fetch"
    ELSE page' = page /\ pc' = "save"

\* lines 261-267: the cards of the page are exhausted
EndPage ==
    /\ pc = "cards"
    /\ LoopAdvance
    /\ UNCHANGED <<test_mode, soup, total_pages, cards_data, seen_texts,
                   card_data, last_log, nParsed, fetched, out_file,
                   save_result, arg, ret>>

\* lines 249-254: page > 1 loads
NextPageLoads ==
    /\ pc = "fetch"
    /\ fetched' = Append(fetched, [page |-> page, ok |-> TRUE])
    /\ soup' = "doc"
    /\ pc' = "cards"
    /\ UNCHANGED <<test_mode, total_pages, page, cards_data, seen_texts,
                   card_data, last_log, nParsed, out_file, save_result,
                   arg, ret>>

\* a failed page ending the loop (break in place of continue)
NextPageFails_break ==
    /\ pc = "fetch"
    /\ fetched' = Append(fetched, [page |-> page, ok |-> FALSE])
    /\ soup' = "None"
    /\ pc' = "save"
    /\ UNCHANGED <<test_mode, total_pages, page, cards_data, seen_texts,
                   card_data, last_log, nParsed, out_file, save_result,
                   arg, ret>>

\* lines 254-256: get_page_content returns None for page > 1: continue
NextPageFails ==
    /\ pc = "fetch"
    /\ fetched' = Append(fetched, [page |-> page, ok |-> FALSE])
    /\ soup' = "None"
    /\ LoopAdvance
    /\ UNCHANGED <<test_mode, total_pages, cards_data, seen_texts,
                   card_data, last_log, nParsed, out_file, save_result,
                   arg, ret>>

\* lines 269-275, called at line 285
save_to_json(outcome) ==
    /\ pc = "save"
    /\ save_result' = outcome
    /\ out_file' =
         CASE outcome = "ok" -> [state |-> "complete", content |-> cards_data]
           [] outcome = "open_failed" -> out_file
           [] outcome = "dump_failed" -> [state |-> "partial", content |-> <<>>]
    /\ pc' = "done"
    /\ UNCHANGED <<test_mode, soup, total_pages, page, cards_data, seen_texts,
                   card_data, last_log, nParsed, fetched, arg, ret>>

Next ==
    \/ FirstPageFails
    \/ \E marker \in RunMarkers : FirstPageLoads(marker)
    \/ \E card \in RunCards : ParseCard(card)
    \/ EndPage
    \/ NextPageLoads
    \/ NextPageFails
    \/ \E outcome \in {"ok", "open_failed", "dump_failed"} : save_to_json(outcome)

Spec == Init /\ [][Next]_vars

(***************************************************************************)
(* Single calls of parse_card_data, parse_attack, parse_energy_symbols    *)
(* and get_total_pages on inputs drawn from bounded sets.                  *)
(***************************************************************************)
InitCard ==
    /\ pc = "call"
    /\ test_mode = FALSE
    /\ arg \in Cards
    /\ seen_texts \in {{}, {CardIdentifier(arg)}, {<<NL, "z">>},
                       {CardIdentifier(arg), <<NL, "z">>}}
    /\ Idle
    /\ ret = EmptyDict

CallParseCardData ==
    /\ pc = "call"
    /\ LET r == parse_card_data(arg, seen_texts, last_log)
       IN  /\ pc' = IF r.raised THEN "raised" ELSE "returned"
           /\ ret' = r.value
           /\ seen_texts' = r.seen
           /\ last_log' = r.log
    /\ UNCHANGED <<test_mode, soup, total_pages, page, cards_data, card_data,
                   nParsed, fetched, out_file, save_result, arg>>

NextCard == CallParseCardData

SpecCard == InitCard /\ [][NextCard]_vars

InitCall(inputs) ==
    /\ pc = "call"
    /\ test_mode = FALSE
    /\ arg \in inputs
    /\ seen_texts = {}
    /\ Idle
    /\ ret = EmptyDict

Return(value) ==
    /\ pc = "call"
    /\ pc' = "returned"
    /\ ret' = value
    /\ UNCHANGED <<test_mode, soup, total_pages, page, cards_data, seen_texts,
                   card_data, last_log, nParsed, fetched, out_file,
                   save_result, arg>>

InitAttack == InitCall(AttackTexts)

CallParseAttack == Return(parse_attack(arg))

NextAttack == CallParseAttack

SpecAttack == InitAttack /\ [][NextAttack]_vars

InitEnergy == InitCall(EnergyTexts)

CallParseEnergySymbols == Return(parse_energy_symbols(arg))

NextEnergy == CallParseEnergySymbols

SpecEnergy == InitEnergy /\ [][NextEnergy]_vars

InitPages == InitCall(MarkerTexts)

CallGetTotalPages == Return(get_total_pages(arg))

NextPages == CallGetTotalPages

SpecPages == InitPages /\ [][NextPages]_vars

(***************************************************************************)
(* Properties.                                                             *)
(***************************************************************************)
\* the Identifier of a stored record: its type_line, or the empty string
\* when it has none, then a newline, then its text
RecordIdentifier(rec) ==
    (IF "type_line" \in DOMAIN rec THEN rec.type_line ELSE <<>>)
        \o <<NL>> \o rec.text

IdentifiersOf(cards) == {RecordIdentifier(cards[i]) : i \in 1..Len(cards)}

FirstPageFailed == fetched # <<>> /\ ~fetched[1].ok

\* C1: cards_data never holds two records with the same Identifier, and
\* cards_data only ever grows at its end, by a record whose Identifier no
\* stored record has: of the cards sharing an Identifier only the first
\* extracted one is kept, and records stay in first-seen order.
C1_NoDuplicateIdentifier ==
    /\ [](\A i, j \in 1..Len(cards_data) :
            i < j => RecordIdentifier(cards_data[i])
                        # RecordIdentifier(cards_data[j]))
    /\ [][\/ cards_data' = cards_data
          \/ /\ Len(cards_data') = Len(cards_data) + 1
             /\ SubSeq(cards_data', 1, Len(cards_data)) = cards_data
             /\ RecordIdentifier(cards_data'[Len(cards_data')])
                    \notin IdentifiersOf(cards_data)]_vars

\* C1 witness: the last card was skipped as a duplicate of the only stored
\* record although its name differs from that record's name.
C1_Witness ==
    /\ Len(cards_data) = 1
    /\ nParsed >= 2
    /\ card_data = EmptyDict
    /\ last_log[1] = "skip"
    /\ last_log[2] # cards_data[1].name

\* C2 as stated: a run whose first page fetch failed ends with no output
\* file; every other run ends after save_to_json wrote cards_data.
C2_FirstPageFailureWritesNoFile ==
    pc = "done" =>
        IF FirstPageFailed
        THEN out_file.state = "absent"
        ELSE /\ save_result # "not_called"
             /\ save_result = "ok" =>
                    out_file = [state |-> "complete", content |-> cards_data]

\* C2 amended: every run, also one whose first page fetch failed, ends
\* after save_to_json was called; a successful write leaves a file holding
\* exactly cards_data, which is the empty array when the first page fetch
\* failed; a failed open leaves no file; no exception ends the run.
C2_EveryRunSaves ==
    /\ pc \in {"start", "cards", "fetch", "save", "done"}
    /\ FirstPageFailed => cards_data = <<>>
    /\ pc = "done" =>
        /\ save_result # "not_called"
        /\ save_result = "ok" =>
               out_file = [state |-> "complete", content |-> cards_data]
        /\ save_result = "open_failed" => out_file = NoFile

\* C2 witness: the first page fetch failed and the run ended with an output
\* file holding the empty array.
C2_Witness ==
    /\ pc = "done"
    /\ FirstPageFailed
    /\ out_file = [state |-> "complete", content |-> <<>>]

\* C3: pages are requested in increasing order, one request per page; a
\* failed fetch of a page after the first changes neither cards_data nor
\* seen_texts and moves the loop to the next page; a page that loads has its
\* cards processed; and a run whose first page loaded has requested every
\* page up to total_pages when scrape_cards returns.
C3_FailedPageSkipsOnlyThatPage ==
    /\ [](\A i \in 1..Len(fetched) : fetched[i].page = i)
    /\ []((pc \in {"save", "done"} /\ ~FirstPageFailed /\ total_pages >= 1)
            => Len(fetched) = total_pages)
    /\ [][(pc = "fetch" /\ soup' = "None") =>
            /\ UNCHANGED <<cards_data, seen_texts, card_data, nParsed>>
            /\ IF page < total_pages
               THEN pc' = "fetch" /\ page' = page + 1
               ELSE pc' = "save"]_vars
    /\ [][(pc = "fetch" /\ soup' = "doc") =>
            (pc' = "cards" /\ page' = page)]_vars

\* C3 witness: page 2 failed, page 3 was still fetched, and the run ended
\* with records written.
C3_Witness ==
    /\ pc = "done"
    /\ Len(fetched) = 3
    /\ ~fetched[2].ok
    /\ fetched[3].ok
    /\ cards_data # <<>>
    /\ save_result = "ok"

\* a card for which the try block of parse_card_data raises, unless the
\* duplicate check returns first
CardFails(card, seen) ==
    \/ card.name = NoElem
    \/ /\ CardIdentifier(card) \notin seen
       /\ IsPokemonCard(card)
       /\ card.hp # NoElem
       /\ ~int(strip(remove(strip(card.hp[1]), <<"H", "P">>))).ok

\* C4: no exception leaves parse_card_data; every call returns the empty
\* result or a record with a name; a card with a missing name or a
\* non-numeric HP returns the empty result and leaves seen_texts and
\* cards_data unchanged; a Pokemon card whose retreat path is broken still
\* returns a record.
C4_CardErrorsAreContained ==
    /\ [](pc # "raised")
    /\ [](card_data = EmptyDict \/ "name" \in DOMAIN card_data)
    /\ [][\A card \in RunCards :
            ParseCard(card) =>
              /\ CardFails(card, seen_texts) =>
                    /\ card_data' = EmptyDict
                    /\ UNCHANGED <<seen_texts, cards_data>>
              /\ (~CardFails(card, seen_texts)
                     /\ CardIdentifier(card) \notin seen_texts) =>
                    /\ card_data' # EmptyDict
                    /\ cards_data' = Append(cards_data, card_data')]_vars

\* C4 witness: a card without a name was logged as failed and a later card
\* was still extracted, as the first record.
C4_Witness ==
    /\ last_log = <<"error", UnknownCard>>
    /\ card_data # EmptyDict
    /\ Len(cards_data) = 1
    /\ nParsed >= 2

\* the parts of an attack text the claims about parse_attack speak of
OneArrow(text) == Len(split(text, <<ARROW>>)) = 2

FirstBodyLine(text) ==
    strip(split(strip(split(text, <<ARROW>>)[2]), <<NL>>)[1])

\* the last whitespace-delimited token of s, and the text before it
LastToken(s) ==
    LET p == rsplit1(strip(s), <<" ">>) IN p[Len(p)]

BeforeLastToken(s) ==
    LET p == rsplit1(strip(s), <<" ">>) IN IF Len(p) = 2 THEN p[1] ELSE <<>>

MultiplierForm(text) ==
    OneArrow(text) /\ Contains(<<MULT>>, FirstBodyLine(text))

ColonForm(text) ==
    /\ OneArrow(text)
    /\ ~Contains(<<MULT>>, FirstBodyLine(text))
    /\ Contains(<<":">>, FirstBodyLine(text))

PreGlyph(text) == split1(FirstBodyLine(text), <<MULT>>)[1]

PreColon(text) == split1(FirstBodyLine(text), <<":">>)[1]

\* digits stand immediately before the multiplication glyph
DigitsBeforeGlyph(text) ==
    PreGlyph(text) # <<>> /\ IsDigit(PreGlyph(text)[Len(PreGlyph(text))])

\* C5 as stated: for every attack text with exactly one arrow whose first
\* body line has digits immediately before the multiplication glyph,
\* parse_attack returns a record whose damage is the digits of the last
\* whitespace-delimited token before the glyph and whose name is the
\* trimmed text before that token.
C5_MultiplierDamageAndName ==
    (pc = "returned" /\ MultiplierForm(arg) /\ DigitsBeforeGlyph(arg)) =>
        IF ret = EmptyDict THEN FALSE
        ELSE /\ ret.damage = digits(LastToken(PreGlyph(arg)))
             /\ ret.name = strip(BeforeLastToken(PreGlyph(arg)))

NoTrailingNumeral(token) == token = <<>> \/ ~IsDigit(token[Len(token)])

\* C6 as stated: for every colon-form attack whose last token before the
\* first colon does not end in a digit, parse_attack returns the trimmed
\* pre-colon text as name and damage "0".
C6_NoTrailingNumeralKeepsName ==
    (pc = "returned" /\ ColonForm(arg)
        /\ NoTrailingNumeral(LastToken(PreColon(arg)))) =>
        IF ret = EmptyDict THEN FALSE
        ELSE ret.name = strip(PreColon(arg)) /\ ret.damage = <<"0">>

\* the text after the last space of s holds no digit, or s has no space
NoDigitAfterLastSpace(s) ==
    LET p == rsplit1(s, <<" ">>)
    IN  Len(p) = 1 \/ \A i \in 1..Len(p[2]) : ~IsDigit(p[2][i])

\* C6 amended: for every colon-form attack whose pre-colon text has no
\* space, or has no digit after its last space, parse_attack returns the
\* trimmed pre-colon text as name and damage "0".
C6_NoDigitKeepsName ==
    (pc = "returned" /\ ColonForm(arg)
        /\ NoDigitAfterLastSpace(PreColon(arg))) =>
        IF ret = EmptyDict THEN FALSE
        ELSE ret.name = strip(PreColon(arg)) /\ ret.damage = <<"0">>

\* C6 witness: a colon-form attack with a two-word name and no digit before
\* the colon has been parsed.
C6_Witness ==
    /\ pc = "returned"
    /\ ColonForm(arg)
    /\ NoDigitAfterLastSpace(PreColon(arg))
    /\ Contains(<<" ">>, strip(PreColon(arg)))
    /\ ret # EmptyDict
    /\ ret.name = <<"a", " ", "a">>
    /\ ret.damage = <<"0">>

\* the text get_total_pages hands to int(): what follows the last '/'
AfterLastSlash(marker) ==
    LET parts == split(strip(marker[1]), <<"/">>) IN parts[Len(parts)]

\* C7 as stated: get_total_pages returns a positive count for every
\* document, and 1 when the marker is absent or the text after its last
\* '/' is not an integer.
C7_PositivePageCount ==
    pc = "returned" =>
        /\ ret >= 1
        /\ (arg = NoElem \/ ~int(AfterLastSlash(arg)).ok) => ret = 1

RECURSIVE BracketedTokens(_)
\* the energy types of the tokens "{X}" of s, X a mapped letter, in order
BracketedTokens(s) ==
    IF Len(s) < 3 THEN <<>>
    ELSE IF s[1] = "{" /\ s[2] \in DOMAIN energy_map /\ s[3] = "}"
    THEN <<energy_map[s[2]]>> \o BracketedTokens(SubSeq(s, 4, Len(s)))
    ELSE BracketedTokens(Tail(s))

\* C8 as stated: parse_energy_symbols returns the energy types of exactly
\* the tokens "{X}" with X a mapped letter, in order and with repeats; any
\* other bracketed content contributes nothing.
C8_ExactlyTheSingleLetterTokens ==
    pc = "returned" => ret = BracketedTokens(arg)

\* C9: a returned record has hp or retreat_cost only if its category, the
\* trimmed type line before the first separator, contains Pokemon; then it
\* has a retreat_cost, which is 0 when the stats block, the retreat field,
\* the abbr or its title attribute is missing.
C9_PokemonFieldsOnlyOnPokemon ==
    (pc = "returned" /\ ret # EmptyDict) =>
        LET typed == "type_line" \in DOMAIN ret
            pokemon == typed /\ Contains(Pokemon, ret.category)
        IN  /\ typed <=> arg.type_div # NoElem
            /\ typed <=> "category" \in DOMAIN ret
            /\ typed => ret.category =
                            strip(split1(ret.type_line, <<RAQUO>>)[1])
            /\ "hp" \in DOMAIN ret => pokemon
            /\ "retreat_cost" \in DOMAIN ret <=> pokemon
            /\ (pokemon /\ arg.stats \in
                    {NoStatsDiv, NoRetreatSpan, NoAbbr, NoTitle})
                 => ret.retreat_cost = 0

\* C9 witness: a Pokemon record with hp was returned with retreat_cost 0 for
\* a card whose abbr has no title attribute.
C9_Witness ==
    /\ pc = "returned"
    /\ ret # EmptyDict
    /\ "hp" \in DOMAIN ret
    /\ "retreat_cost" \in DOMAIN ret
    /\ ret.retreat_cost = 0
    /\ arg.stats = NoTitle

\* C10: seen_texts never shrinks; it changes only in a parse_card_data call
\* that returns a record, and then by exactly that record's Identifier,
\* which was not in it; a call that returns the empty result leaves it
\* unchanged; and its size always equals the length of cards_data.
C10_OneRegistrationPerRecord ==
    /\ [](Cardinality(seen_texts) = Len(cards_data))
    /\ [][/\ seen_texts \subseteq seen_texts'
          /\ seen_texts' # seen_texts =>
                /\ nParsed' = nParsed + 1
                /\ card_data' # EmptyDict
                /\ RecordIdentifier(card_data') \notin seen_texts
                /\ seen_texts' =
                       seen_texts \cup {RecordIdentifier(card_data')}
          /\ (nParsed' = nParsed + 1 /\ card_data' = EmptyDict) =>
                seen_texts' = seen_texts]_vars

\* C10 witness: after two records were registered a further call returned
\* the empty result and the set still has two members.
C10_Witness ==
    /\ nParsed = 3
    /\ card_data = EmptyDict
    /\ Cardinality(seen_texts) = 2
    /\ Len(cards_data) = 2

====
